---- MODULE Spec2Model ----
(***************************************************************************)
(* A model of GenomicConsensus/variants.py: the Variant class (its         *)
(* constructor, isHeterozygous, variantType, __lt__, annotate), and the    *)
(* module functions filterVariants and annotateVariants.                   *)
(*                                                                         *)
(* Python values are represented as follows.                               *)
(*   - a str is a sequence of one-character strings: "AC" is <<"A","C">>   *)
(*     and "" is <<>>;                                                     *)
(*   - an optional value is a sequence of length at most one: None is <<>> *)
(*     and a non-None value x is <<x>>, so None, "" and "A" are three      *)
(*     different values <<>>, << <<>> >>, << <<"A">> >>;                   *)
(*   - an object is its index in the heap; a list object is its index in   *)
(*     the heap of lists, so two references to one list are one index.     *)
(***************************************************************************)
EXTENDS Integers, Sequences, FiniteSets, TLC

VARIABLES
    heap,     \* the Variant objects, in order of construction
    lists,    \* the list objects: the caller's own, then those annotate made
    ctor,     \* history: the arguments each Variant was constructed with
    calls,    \* history: the (key, value) of every annotate call, per Variant
    budget,   \* the number of mutating calls still to be made
    last      \* the last operation: its name, arguments and outcome

vars == <<heap, lists, ctor, calls, budget, last>>

----------------------------------------------------------------------------
(* Bounds *)

MaxVariants == 2     \* Variant objects constructed in one behaviour
MaxCalls == 2        \* annotate / annotateVariants calls in one behaviour
MaxSeqLen == 2       \* length of an allele string
MaxInput == 2        \* length of the sequence given to filterVariants
MaxSortLen == 3      \* number of Variants compared and sorted

----------------------------------------------------------------------------
(* Python values *)

None == <<>>
Some(x) == <<x>>
Get(o) == o[1]

Bases == {"A", "C"}

\* The code point of the characters that are compared with <.
Ord(c) == CASE c = "A" -> 65 [] c = "C" -> 67 [] c = "G" -> 71 [] c = "T" -> 84

\* The strings over the set chars of length at most n.
StrUpTo(chars, n) == UNION {[1..k -> chars] : k \in 0..n}

AlleleStrings == StrUpTo(Bases, MaxSeqLen)

\* The sequences over the set S of length at most n.
SeqUpTo(S, n) == UNION {[1..k -> S] : k \in 0..n}

\* Python truthiness of an optional str: None and "" are falsy.
Truthy(o) == o # None /\ Get(o) # <<>>

----------------------------------------------------------------------------
(* class Variant *)

\* The arguments of Variant(...), and the attributes __init__ stores.
Fields == {"refId", "refStart", "refEnd", "refSeq", "readSeq1", "readSeq2",
           "confidence", "coverage", "frequency1", "frequency2",
           "annotations", "refPrev", "readPrev"}

\* A call Variant(refId=1, refStart=0, refEnd=1, refSeq="A", readSeq1="C",
\* refPrev="G", readPrev="G"), every other argument at its default None.
BaseArgs ==
    [refId |-> 1, refStart |-> 0, refEnd |-> 1,
     refSeq |-> <<"A">>, readSeq1 |-> <<"C">>, readSeq2 |-> None,
     confidence |-> None, coverage |-> None,
     frequency1 |-> None, frequency2 |-> None,
     annotations |-> None,
     refPrev |-> Some(<<"G">>), readPrev |-> Some(<<"G">>)]

\* __init__ without the readPrev test.
InitError_RefPrevOnly(a) ==
    IF a.refPrev = None THEN "ValueError: missing refPrev!" ELSE "ok"

\* __init__ raises ValueError when refPrev or readPrev is None (refPrev is
\* tested first) and returns normally otherwise.
InitError(a) ==
    IF a.refPrev = None THEN "ValueError: missing refPrev!"
    ELSE IF a.readPrev = None THEN "ValueError: missing readPrev!"
    ELSE "ok"

\* __init__ storing frequency1 as frequency2 too.
InitObject_Frequency1Twice(a) ==
    [refId |-> a.refId, refStart |-> a.refStart, refEnd |-> a.refEnd,
     refSeq |-> a.refSeq, readSeq1 |-> a.readSeq1, readSeq2 |-> a.readSeq2,
     confidence |-> a.confidence, coverage |-> a.coverage,
     frequency1 |-> a.frequency1, frequency2 |-> a.frequency1,
     annotations |-> a.annotations,
     refPrev |-> a.refPrev, readPrev |-> a.readPrev]

\* The object __init__ leaves behind: every argument stored under its name.
InitObject(a) ==
    [refId |-> a.refId, refStart |-> a.refStart, refEnd |-> a.refEnd,
     refSeq |-> a.refSeq, readSeq1 |-> a.readSeq1, readSeq2 |-> a.readSeq2,
     confidence |-> a.confidence, coverage |-> a.coverage,
     frequency1 |-> a.frequency1, frequency2 |-> a.frequency2,
     annotations |-> a.annotations,
     refPrev |-> a.refPrev, readPrev |-> a.readPrev]

isHeterozygous(v) == v.readSeq2 # None

\* variantType with the Deletion test moved before the Insertion test.
variantType_DeletionFirst(v) ==
    LET lr == Len(v.refSeq)
        l1 == Len(v.readSeq1)
        l2 == IF Truthy(v.readSeq2) THEN Some(Len(Get(v.readSeq2))) ELSE None
    IN  IF l1 = 0 \/ l2 = Some(0) THEN "Deletion"
        ELSE IF lr = 0 THEN "Insertion"
        ELSE IF l1 = lr /\ (l2 = None \/ l2 = Some(lr)) THEN "Substitution"
        ELSE "Variant"

\* l2 is len(readSeq2) when readSeq2 is truthy and None otherwise, so it is
\* None for readSeq2 = None and for readSeq2 = "" alike; None == 0 is False.
variantType(v) ==
    LET lr == Len(v.refSeq)
        l1 == Len(v.readSeq1)
        l2 == IF Truthy(v.readSeq2) THEN Some(Len(Get(v.readSeq2))) ELSE None
    IN  IF lr = 0 THEN "Insertion"
        ELSE IF l1 = 0 \/ l2 = Some(0) THEN "Deletion"
        ELSE IF l1 = lr /\ (l2 = None \/ l2 = Some(lr)) THEN "Substitution"
        ELSE "Variant"

----------------------------------------------------------------------------
(* The last operation *)

NoOp == [op |-> "none"]

\* The operations that read and change nothing. A read that follows a read
\* reaches no state it does not reach from the state before the first one,
\* so the actions below take a read only after something else.
Reads == {"variantType", "isHeterozygous", "lt", "sorted", "filterVariants"}

AfterRead == last.op \in Reads

----------------------------------------------------------------------------
(* SpecType: variantType read on Variants of every shape *)

TypeArgs ==
    {[BaseArgs EXCEPT !.refSeq = r, !.readSeq1 = s1, !.readSeq2 = o2] :
        r \in AlleleStrings, s1 \in AlleleStrings,
        o2 \in {None} \cup {Some(s2) : s2 \in AlleleStrings}}

InitType ==
    /\ \E a \in TypeArgs : heap = <<InitObject(a)>> /\ ctor = <<a>>
    /\ lists = <<>>
    /\ calls = <<<<>>>>
    /\ budget = 0
    /\ last = NoOp

\* x = v.variantType
ReadVariantType(self) ==
    /\ ~AfterRead
    /\ last' = [op |-> "variantType", self |-> self,
                result |-> variantType(heap[self])]
    /\ UNCHANGED <<heap, lists, ctor, calls, budget>>

\* x = v.isHeterozygous
ReadIsHeterozygous(self) ==
    /\ ~AfterRead
    /\ last' = [op |-> "isHeterozygous", self |-> self,
                result |-> isHeterozygous(heap[self])]
    /\ UNCHANGED <<heap, lists, ctor, calls, budget>>

NextType ==
    \/ \E self \in 1..Len(heap) : ReadVariantType(self)
    \/ \E self \in 1..Len(heap) : ReadIsHeterozygous(self)

SpecType == InitType /\ [][NextType]_vars

\* The classification the specification gives: four rules in order, the
\* second allele counted whenever readSeq2 is not None.
FourRules(v) ==
    LET lr == Len(v.refSeq)
        l1 == Len(v.readSeq1)
        het == v.readSeq2 # None
        l2 == IF het THEN Len(Get(v.readSeq2)) ELSE 0
    IN  IF lr = 0 THEN "Insertion"
        ELSE IF l1 = 0 \/ (het /\ l2 = 0) THEN "Deletion"
        ELSE IF l1 = lr /\ (~het \/ l2 = lr) THEN "Substitution"
        ELSE "Variant"

\* C1: variantType is the four-rule classification, where rule 2 gives
\* "Deletion" to a heterozygous Variant whose readSeq2 is "" (stated as the
\* claim states it; the code gives "Substitution" or "Variant" there).
C1_FourRuleClassification ==
    last.op = "variantType" => last.result = FourRules(heap[last.self])

\* C6: a Variant is an "Insertion" exactly when its refSeq is "", whatever
\* readSeq1 and readSeq2 are.
C6_InsertionPriority ==
    last.op = "variantType" =>
        (last.result = "Insertion" <=> heap[last.self].refSeq = <<>>)

\* An empty refSeq with an empty readSeq1 and an empty second allele, which
\* rule 2 alone would call a Deletion, read as an Insertion.
C6_Witness ==
    /\ last.op = "variantType"
    /\ heap[last.self].refSeq = <<>>
    /\ heap[last.self].readSeq1 = <<>>
    /\ heap[last.self].readSeq2 = Some(<<>>)
    /\ last.result = "Insertion"

----------------------------------------------------------------------------
(* annotate and annotateVariants *)

\* The attribute v.annotations as a value: None, or the contents of the list
\* object it refers to.
Annotations(h, ls, v) ==
    IF h[v].annotations = None THEN None ELSE Some(ls[Get(h[v].annotations)])

\* A Variant as a value: its attributes, the annotations by their contents.
Value(h, ls, v) == [h[v] EXCEPT !.annotations = Annotations(h, ls, v)]

\* annotate that starts a new list at every call instead of only at the first.
annotate_FreshList(st, self, key, value) ==
    [heap |-> [st.heap EXCEPT ![self].annotations = Some(Len(st.lists) + 1)],
     lists |-> Append(st.lists, <<<<key, value>>>>)]

\* self.annotate(key, value) on the store st = [heap, lists]: a Variant whose
\* annotations is None gets a new empty list object first, and the pair is
\* appended to the list object the Variant refers to.
annotate(st, self, key, value) ==
    LET made == st.heap[self].annotations = None
        ref == IF made THEN Len(st.lists) + 1
               ELSE Get(st.heap[self].annotations)
        h1 == IF made THEN [st.heap EXCEPT ![self].annotations = Some(ref)]
              ELSE st.heap
        l1 == IF made THEN Append(st.lists, <<>>) ELSE st.lists
    IN  [heap |-> h1,
         lists |-> [l1 EXCEPT ![ref] = Append(l1[ref], <<key, value>>)]]

Digits == <<"0", "1", "2", "3", "4", "5", "6", "7", "8", "9">>

\* str(n) of an int n >= 0: its decimal digits.
RECURSIVE Str(_)
Str(n) == IF n < 10 THEN <<Digits[n + 1]>>
          ELSE Str(n \div 10) \o <<Digits[(n % 10) + 1]>>

\* sep.join(strs)
RECURSIVE Join(_, _)
Join(sep, strs) ==
    IF strs = <<>> THEN <<>>
    ELSE IF Len(strs) = 1 THEN strs[1]
    ELSE strs[1] \o sep \o Join(sep, Tail(strs))

\* ",".join(str(a.rowNumber) for a in alns); an alignment is its rowNumber.
JoinedRows(alns) == Join(<<",">>, [i \in 1..Len(alns) |-> Str(alns[i])])

\* The loop of annotateVariants over the rest of variants.
RECURSIVE annotateVariants(_, _, _)
annotateVariants(st, variants, alns) ==
    IF variants = <<>> THEN st
    ELSE annotateVariants(annotate(st, Head(variants), <<"r","o","w","s">>,
                                   JoinedRows(alns)),
                          Tail(variants), alns)

----------------------------------------------------------------------------
(* Spec: Variants constructed with and without an annotations list, and    *)
(* annotated one at a time and in bulk                                     *)

\* The list objects the caller holds before constructing any Variant: an
\* empty list and a list of one pair.
CallerLists == << <<>>, << <<<<"i","d">>, <<"7">>>> >> >>

\* The caller passes no annotations, or one of its own lists; it may pass
\* the same list to several Variants.
AnnArgs ==
    {[BaseArgs EXCEPT !.annotations = o] :
        o \in {None} \cup {Some(i) : i \in 1..Len(CallerLists)}}

\* The (key, value) pairs the caller annotates with.
CallerPairs == {<<<<"q","v">>, <<"9">>>>, <<<<"i","d">>, <<"7">>>>}

\* The alignment collections (rowNumbers) given to annotateVariants.
AlnInputs == {<<>>, <<3, 7>>, <<12, 3>>}

\* The lists of Variants given to annotateVariants: the empty list, every
\* single Variant and every two Variants, a Variant listed twice included.
VariantLists ==
    {<<>>} \cup {<<v>> : v \in 1..Len(heap)}
           \cup {<<v, w>> : v, w \in 1..Len(heap)}

Init ==
    /\ heap = <<>>
    /\ lists = CallerLists
    /\ ctor = <<>>
    /\ calls = <<>>
    /\ budget = MaxCalls
    /\ last = NoOp

\* v = Variant(**a): raises, or adds the new object to the heap.
New(a) ==
    /\ Len(heap) < MaxVariants
    /\ IF InitError(a) # "ok"
       THEN /\ last' = [op |-> "init", args |-> a, error |-> InitError(a)]
            /\ UNCHANGED <<heap, lists, ctor, calls, budget>>
       ELSE /\ heap' = Append(heap, InitObject(a))
            /\ ctor' = Append(ctor, a)
            /\ calls' = Append(calls, <<>>)
            /\ last' = [op |-> "init", args |-> a, error |-> "ok",
                        self |-> Len(heap) + 1]
            /\ UNCHANGED <<lists, budget>>

\* v.annotate(key, value)
Annotate(self, key, value) ==
    /\ budget > 0
    /\ LET st == annotate([heap |-> heap, lists |-> lists], self, key, value)
       IN  /\ heap' = st.heap
           /\ lists' = st.lists
    /\ calls' = [calls EXCEPT ![self] = Append(@, <<key, value>>)]
    /\ budget' = budget - 1
    /\ last' = [op |-> "annotate", self |-> self, key |-> key, value |-> value,
                heap |-> heap, lists |-> lists]
    /\ UNCHANGED ctor

\* The annotate calls annotateVariants makes, added to the history.
RECURSIVE Called(_, _, _)
Called(cs, variants, pair) ==
    IF variants = <<>> THEN cs
    ELSE Called([cs EXCEPT ![Head(variants)] = Append(@, pair)],
                Tail(variants), pair)

\* annotateVariants(variants, alns)
AnnotateVariants(variants, alns) ==
    /\ budget > 0
    /\ LET st == annotateVariants([heap |-> heap, lists |-> lists],
                                  variants, alns)
       IN  /\ heap' = st.heap
           /\ lists' = st.lists
    /\ calls' = Called(calls, variants, <<<<"r","o","w","s">>, JoinedRows(alns)>>)
    /\ budget' = budget - 1
    /\ last' = [op |-> "annotateVariants", variants |-> variants,
                alns |-> alns, heap |-> heap, lists |-> lists]
    /\ UNCHANGED ctor

Next ==
    \/ \E a \in AnnArgs : New(a)
    \/ \E self \in 1..Len(heap), p \in CallerPairs : Annotate(self, p[1], p[2])
    \/ \E variants \in VariantLists, alns \in AlnInputs :
          AnnotateVariants(variants, alns)

Spec == Init /\ [][Next]_vars

\* The annotations of v as a sequence: the empty sequence when None.
Entries(h, ls, v) ==
    IF h[v].annotations = None THEN <<>> ELSE ls[Get(h[v].annotations)]

\* The number of times v occurs in the sequence variants.
Occurrences(variants, v) == Cardinality({i \in 1..Len(variants) : variants[i] = v})

\* The text the specification gives for the rowNumbers of each collection.
RowsText(alns) ==
    CASE alns = <<>> -> <<>>
      [] alns = <<3, 7>> -> <<"3", ",", "7">>
      [] alns = <<12, 3>> -> <<"1", "2", ",", "3">>

\* C3: annotateVariants(variants, alns) appends ("rows", s) to each Variant
\* of variants, once for each time it is listed, after its prior annotations,
\* s being the comma-joined rowNumbers; a Variant that is not listed keeps
\* its value, and so does every Variant when variants is empty.
C3_RowsAppendedToListedOnly ==
    last.op = "annotateVariants" =>
        \A v \in 1..Len(heap) :
            LET n == Occurrences(last.variants, v)
                pair == <<<<"r","o","w","s">>, RowsText(last.alns)>>
            IN  IF n = 0
                THEN Value(heap, lists, v) = Value(last.heap, last.lists, v)
                ELSE Value(heap, lists, v) =
                        [Value(last.heap, last.lists, v) EXCEPT
                            !.annotations =
                                Some(Entries(last.heap, last.lists, v)
                                     \o [i \in 1..n |-> pair])]

\* C5: a Variant constructed with annotations = None has, after N >= 1
\* annotate calls on it, exactly the N pairs of those calls in call order
\* (None after no call), and a call changes no other attribute of it.
C5_AnnotateCumulative ==
    /\ \A v \in 1..Len(heap) :
          ctor[v].annotations = None =>
             /\ Annotations(heap, lists, v) =
                    (IF calls[v] = <<>> THEN None ELSE Some(calls[v]))
             /\ [heap[v] EXCEPT !.annotations = None] = InitObject(ctor[v])
    /\ (last.op = "annotate" /\ ctor[last.self].annotations = None) =>
          /\ Len(Entries(heap, lists, last.self)) =
                 Len(Entries(last.heap, last.lists, last.self)) + 1
          /\ Entries(heap, lists, last.self) =
                 Append(Entries(last.heap, last.lists, last.self),
                        <<last.key, last.value>>)

\* A Variant constructed without annotations and annotated twice with the
\* same pair holds that pair twice.
C5_Witness ==
    /\ last.op = "annotate"
    /\ ctor[last.self].annotations = None
    /\ Len(calls[last.self]) >= 2
    /\ calls[last.self][1] = calls[last.self][2]
    /\ Annotations(heap, lists, last.self) = Some(calls[last.self])

\* C9: v.annotate(key, value) changes the annotations of v alone: every
\* other Variant keeps its value and the lists the caller passed to
\* constructors keep their contents.
C9_ExclusiveOwnership ==
    last.op = "annotate" =>
        /\ \A w \in 1..Len(heap) :
              w # last.self =>
                 Value(heap, lists, w) = Value(last.heap, last.lists, w)
        /\ \A i \in 1..Len(CallerLists) : lists[i] = last.lists[i]

----------------------------------------------------------------------------
(* SpecInit: construction with every argument varied, and equality         *)

\* BaseArgs with one argument changed: each of the thirteen in turn (a
\* refStart after refEnd, a refEnd that does not fit refSeq, either caller
\* list as annotations), and refPrev, readPrev or both left at None.
InitArgs ==
    {BaseArgs,
     [BaseArgs EXCEPT !.refId = 2],
     [BaseArgs EXCEPT !.refStart = 5],
     [BaseArgs EXCEPT !.refEnd = 3],
     [BaseArgs EXCEPT !.refSeq = <<"A", "C">>],
     [BaseArgs EXCEPT !.readSeq1 = <<"A">>],
     [BaseArgs EXCEPT !.readSeq2 = Some(<<"C">>)],
     [BaseArgs EXCEPT !.confidence = Some(40)],
     [BaseArgs EXCEPT !.coverage = Some(10)],
     [BaseArgs EXCEPT !.frequency1 = Some(1)],
     [BaseArgs EXCEPT !.frequency2 = Some(1)],
     [BaseArgs EXCEPT !.annotations = Some(1)],
     [BaseArgs EXCEPT !.annotations = Some(2)],
     [BaseArgs EXCEPT !.refPrev = Some(<<"T">>)],
     [BaseArgs EXCEPT !.readPrev = Some(<<"T">>)],
     [BaseArgs EXCEPT !.refPrev = None],
     [BaseArgs EXCEPT !.readPrev = None],
     [BaseArgs EXCEPT !.refStart = 5, !.refPrev = None],
     [BaseArgs EXCEPT !.refPrev = None, !.readPrev = None]}

NextInit ==
    \/ \E a \in InitArgs : New(a)
    \/ \E self \in 1..Len(heap) : Annotate(self, <<"i","d">>, <<"7">>)

SpecInit == Init /\ [][NextInit]_vars

\* a == b of CommonEqualityMixin: the attributes of the two objects are
\* pairwise equal, a list attribute being compared by its contents.
Eq(h, ls, a, b) ==
    /\ \A f \in Fields \ {"annotations"} : h[a][f] = h[b][f]
    /\ Annotations(h, ls, a) = Annotations(h, ls, b)

\* C4: Variant(...) raises ValueError exactly when refPrev is None or
\* readPrev is None, whatever the other arguments; otherwise it returns an
\* object that holds every argument as given.
C4_InitFailsIffPrevMissing ==
    last.op = "init" =>
        /\ last.error # "ok" <=>
              (last.args.refPrev = None \/ last.args.readPrev = None)
        /\ last.error \in {"ok", "ValueError: missing refPrev!",
                           "ValueError: missing readPrev!"}
        /\ last.error = "ok" =>
              /\ last.self = Len(heap)
              /\ \A f \in Fields : heap[last.self][f] = last.args[f]

\* A construction with refPrev given and readPrev missing has raised.
C4_Witness ==
    /\ last.op = "init"
    /\ last.args.refPrev # None
    /\ last.args.readPrev = None
    /\ last.error = "ValueError: missing readPrev!"

----------------------------------------------------------------------------
(* filterVariants *)

\* x >= y for an attribute x that may be None and a number y: "T", "F", or
\* "E" when the comparison raises. Python 3 raises TypeError for None >= y;
\* Python 2 orders None below every number.
GreaterEqual(x, y, python) ==
    IF x = None THEN (IF python = "py3" THEN "E" ELSE "F")
    ELSE IF Get(x) >= y THEN "T" ELSE "F"

\* The condition with both comparisons evaluated whatever the first gives.
Passes_Unconditional(v, minCoverage, minConfidence, python) ==
    LET c1 == GreaterEqual(v.coverage, minCoverage, python)
        c2 == GreaterEqual(v.confidence, minConfidence, python)
    IN  IF c1 = "E" \/ c2 = "E" THEN "E"
        ELSE IF c1 = "T" /\ c2 = "T" THEN "T" ELSE "F"

\* The condition with a strict coverage comparison.
Passes_StrictCoverage(v, minCoverage, minConfidence, python) ==
    IF v.coverage # None /\ Get(v.coverage) = minCoverage THEN "F"
    ELSE Passes_Unconditional(v, minCoverage, minConfidence, python)

\* (v.coverage >= minCoverage) and (v.confidence >= minConfidence): the
\* second comparison is evaluated only when the first is true.
Passes(v, minCoverage, minConfidence, python) ==
    LET c1 == GreaterEqual(v.coverage, minCoverage, python)
    IN  IF c1 # "T" THEN c1
        ELSE GreaterEqual(v.confidence, minConfidence, python)

\* The list comprehension over the rest of variants, kept holding what was
\* kept so far: the new list, or the error that ended the call.
RECURSIVE Comprehension(_, _, _, _, _, _)
Comprehension(h, variants, kept, minCoverage, minConfidence, python) ==
    IF variants = <<>> THEN [error |-> "ok", result |-> Some(kept)]
    ELSE LET c == Passes(h[Head(variants)], minCoverage, minConfidence, python)
         IN  IF c = "E" THEN [error |-> "TypeError", result |-> None]
             ELSE Comprehension(h, Tail(variants),
                                IF c = "T" THEN Append(kept, Head(variants))
                                ELSE kept,
                                minCoverage, minConfidence, python)

filterVariants(h, minCoverage, minConfidence, variants, python) ==
    Comprehension(h, variants, <<>>, minCoverage, minConfidence, python)

----------------------------------------------------------------------------
(* SpecFilter: filterVariants over Variants with and without coverage and  *)
(* confidence                                                              *)

FilterArgs ==
    {[BaseArgs EXCEPT !.coverage = c, !.confidence = q] :
        c \in {None, Some(4), Some(5)}, q \in {None, Some(29), Some(30)}}

\* The thresholds (minCoverage, minConfidence) of the calls.
Thresholds == {<<5, 30>>, <<4, 29>>}

\* r = filterVariants(minCoverage, minConfidence, variants), variants being
\* a list of references to Variants.
FilterVariants(minCoverage, minConfidence, variants, python) ==
    /\ ~AfterRead
    /\ LET r == filterVariants(heap, minCoverage, minConfidence, variants,
                               python)
       IN  last' = [op |-> "filterVariants", minCoverage |-> minCoverage,
                    minConfidence |-> minConfidence, variants |-> variants,
                    python |-> python, error |-> r.error,
                    result |-> r.result, heap |-> heap, lists |-> lists]
    /\ UNCHANGED <<heap, lists, ctor, calls, budget>>

NextFilter ==
    \/ \E a \in FilterArgs : New(a)
    \/ \E th \in Thresholds, variants \in SeqUpTo(1..Len(heap), MaxInput),
          python \in {"py2", "py3"} :
          FilterVariants(th[1], th[2], variants, python)

SpecFilter == Init /\ [][NextFilter]_vars

\* Whether the Variant at index i of the input of the last call has both
\* numbers and meets both thresholds.
Meets(i) ==
    LET v == last.heap[last.variants[i]]
    IN  /\ v.coverage # None /\ Get(v.coverage) >= last.minCoverage
        /\ v.confidence # None /\ Get(v.confidence) >= last.minConfidence

\* Every Variant of the input of the last call has a coverage and a
\* confidence.
AllNumeric ==
    \A i \in 1..Len(last.variants) :
        /\ last.heap[last.variants[i]].coverage # None
        /\ last.heap[last.variants[i]].confidence # None

\* C2: on an input whose Variants all have coverage and confidence,
\* filterVariants returns the input elements at exactly the positions that
\* meet both thresholds (equality included), in input order and as often as
\* they occur, and changes no Variant.
C2_FilterKeepsExactly ==
    (last.op = "filterVariants" /\ AllNumeric) =>
        LET K == {i \in 1..Len(last.variants) : Meets(i)}
            Nth(j) == CHOOSE i \in K : Cardinality({k \in K : k <= i}) = j
        IN  /\ last.error = "ok"
            /\ Len(Get(last.result)) = Cardinality(K)
            /\ \A j \in 1..Cardinality(K) :
                  Get(last.result)[j] = last.variants[Nth(j)]
            /\ heap = last.heap /\ lists = last.lists

\* A call that kept a Variant whose coverage and confidence equal the
\* thresholds and dropped another.
C2_Witness ==
    /\ last.op = "filterVariants" /\ AllNumeric
    /\ Len(last.variants) >= 2
    /\ Len(Get(last.result)) = 1
    /\ heap[Get(last.result)[1]].coverage = Some(last.minCoverage)
    /\ heap[Get(last.result)[1]].confidence = Some(last.minConfidence)

\* Some Variant of the input of the last call lacks coverage or confidence.
SomeNone ==
    \E i \in 1..Len(last.variants) :
        \/ last.heap[last.variants[i]].coverage = None
        \/ last.heap[last.variants[i]].confidence = None

\* C10 as claimed: where None >= number raises, a call whose input holds a
\* Variant with coverage None or confidence None raises, whatever that
\* Variant's other number is.
C10_RaisesOnAnyNone ==
    (last.op = "filterVariants" /\ last.python = "py3" /\ SomeNone) =>
        last.error = "TypeError"

\* C10 as amended: where None >= number raises, the call raises, returning
\* nothing, exactly when the input holds a Variant with coverage None, or
\* with confidence None and a coverage that meets minCoverage; a Variant
\* with coverage below minCoverage and confidence None is dropped silently.
C10_RaisesOnEvaluatedNone ==
    (last.op = "filterVariants" /\ last.python = "py3") =>
        LET Raises(i) ==
                LET v == last.heap[last.variants[i]]
                IN  \/ v.coverage = None
                    \/ /\ Get(v.coverage) >= last.minCoverage
                       /\ v.confidence = None
        IN  /\ last.error = "TypeError" <=>
                  \E i \in 1..Len(last.variants) : Raises(i)
            /\ last.error = "TypeError" => last.result = None
            /\ last.error = "ok" => last.result # None

\* A call that raised on a confidence of None after a Variant that met both
\* thresholds, and returned nothing.
C10_Witness ==
    /\ last.op = "filterVariants" /\ last.python = "py3"
    /\ Len(last.variants) = 2
    /\ Meets(1)
    /\ last.heap[last.variants[2]].coverage # None
    /\ last.heap[last.variants[2]].confidence = None
    /\ last.error = "TypeError" /\ last.result = None

----------------------------------------------------------------------------
(* __lt__ and sorting *)

\* s < t for two str: the first differing character decides by code point,
\* and a proper prefix is smaller.
RECURSIVE StrLess(_, _)
StrLess(s, t) ==
    IF s = <<>> THEN t # <<>>
    ELSE IF t = <<>> THEN FALSE
    ELSE IF Head(s) # Head(t) THEN Ord(Head(s)) < Ord(Head(t))
    ELSE StrLess(Tail(s), Tail(t))

\* The tuple __lt__ builds for a Variant.
KeyOf(v) == <<v.refId, v.refStart, v.refEnd, v.readSeq1>>

\* x < y for two such tuples: the first position where the items are not
\* equal decides, by the items' own <; equal tuples are not smaller.
TupleLess(x, y) ==
    LET D == {i \in 1..Len(x) : x[i] # y[i]}
    IN  IF D = {} THEN FALSE
        ELSE LET i == CHOOSE d \in D : \A e \in D : d <= e
             IN  IF i = 4 THEN StrLess(x[i], y[i]) ELSE x[i] < y[i]

\* __lt__ with refStart compared before refId.
Lt_StartFirst(a, b) ==
    TupleLess(<<a.refStart, a.refId, a.refEnd, a.readSeq1>>,
              <<b.refStart, b.refId, b.refEnd, b.readSeq1>>)

\* a < b
Lt(a, b) == TupleLess(KeyOf(a), KeyOf(b))

\* sorted(variants): a stable sort that only asks x < y of its elements;
\* each element is put after the elements it is not smaller than.
RECURSIVE Insert(_, _, _)
Insert(h, s, x) ==
    IF s = <<>> THEN <<x>>
    ELSE IF Lt(h[x], h[s[Len(s)]])
         THEN Append(Insert(h, SubSeq(s, 1, Len(s) - 1), x), s[Len(s)])
         ELSE Append(s, x)

RECURSIVE Sorted(_, _)
Sorted(h, variants) ==
    IF variants = <<>> THEN <<>>
    ELSE Insert(h, Sorted(h, SubSeq(variants, 1, Len(variants) - 1)),
                variants[Len(variants)])

----------------------------------------------------------------------------
(* SpecOrder: Variants compared with < and sorted                          *)

\* BaseArgs and Variants that differ from it in refId, in refStart or in
\* refEnd alone, others that differ in readSeq1 ("", "A", "AC", "CA" for
\* "C"), and two that differ from BaseArgs outside the key.
OrderArgs ==
    {BaseArgs, [BaseArgs EXCEPT !.refId = 2], [BaseArgs EXCEPT !.refStart = 1],
     [BaseArgs EXCEPT !.refEnd = 2]}
    \cup {[BaseArgs EXCEPT !.readSeq1 = r] :
            r \in {<<>>, <<"A">>, <<"A", "C">>, <<"C", "A">>}}
    \cup {[BaseArgs EXCEPT !.readSeq2 = Some(<<"T">>), !.confidence = Some(40),
                           !.coverage = Some(10), !.refPrev = Some(<<"T">>)],
          [BaseArgs EXCEPT !.readSeq1 = <<"A">>, !.frequency1 = Some(1),
                           !.frequency2 = Some(1), !.readPrev = Some(<<"T">>)]}

InitOrder ==
    /\ \E as \in [1..MaxSortLen -> OrderArgs] :
          /\ heap = [i \in 1..MaxSortLen |-> InitObject(as[i])]
          /\ ctor = as
    /\ lists = <<>>
    /\ calls = [i \in 1..MaxSortLen |-> <<>>]
    /\ budget = 0
    /\ last = NoOp

\* r = a < b
Less(self, other) ==
    /\ ~AfterRead
    /\ last' = [op |-> "lt", self |-> self, other |-> other,
                result |-> Lt(heap[self], heap[other])]
    /\ UNCHANGED <<heap, lists, ctor, calls, budget>>

\* r = sorted(variants), variants being the Variants in order of construction
Sort ==
    /\ ~AfterRead
    /\ last' = [op |-> "sorted", variants |-> [i \in 1..Len(heap) |-> i],
                result |-> Sorted(heap, [i \in 1..Len(heap) |-> i])]
    /\ UNCHANGED <<heap, lists, ctor, calls, budget>>

NextOrder ==
    \/ \E self, other \in 1..Len(heap) : Less(self, other)
    \/ Sort

SpecOrder == InitOrder /\ [][NextOrder]_vars

\* s is lexicographically smaller than t: they agree on the first k
\* characters, and there s ends and t goes on, or s has the smaller one.
StrBefore(s, t) ==
    \E k \in 0..Len(s) :
        /\ k <= Len(t)
        /\ \A i \in 1..k : s[i] = t[i]
        /\ \/ k = Len(s) /\ k < Len(t)
           \/ k < Len(s) /\ k < Len(t) /\ Ord(s[k + 1]) < Ord(t[k + 1])

\* The key of a is lexicographically smaller than the key of b: refId,
\* then refStart, then refEnd, then readSeq1.
KeyBefore(a, b) ==
    \/ a.refId < b.refId
    \/ /\ a.refId = b.refId
       /\ \/ a.refStart < b.refStart
          \/ /\ a.refStart = b.refStart
             /\ \/ a.refEnd < b.refEnd
                \/ a.refEnd = b.refEnd /\ StrBefore(a.readSeq1, b.readSeq1)

\* C7: a < b exactly when the key (refId, refStart, refEnd, readSeq1) of a
\* is lexicographically smaller than that of b, whatever the other
\* attributes are; < is irreflexive and transitive; sorted Variants have
\* non-decreasing keys and are the Variants that were given.
C7_LexicographicOrder ==
    LET O == 1..Len(heap)
        L(a, b) == Lt(heap[a], heap[b])
    IN  /\ last.op = "lt" =>
              last.result = KeyBefore(heap[last.self], heap[last.other])
        /\ \A a \in O : ~L(a, a)
        /\ \A a, b, c \in O : (L(a, b) /\ L(b, c)) => L(a, c)
        /\ \A a, b \in O :
              (~L(a, b) /\ ~L(b, a)) => KeyOf(heap[a]) = KeyOf(heap[b])
        /\ last.op = "sorted" =>
              /\ Len(last.result) = Len(last.variants)
              /\ \A v \in O :
                    Occurrences(last.result, v) = Occurrences(last.variants, v)
              /\ \A i, j \in 1..Len(last.result) :
                    i < j => ~KeyBefore(heap[last.result[j]],
                                        heap[last.result[i]])

\* Two Variants that agree on refId, refStart and refEnd and differ
\* elsewhere, the first smaller because its readSeq1 is a proper prefix.
C7_Witness ==
    /\ last.op = "lt"
    /\ last.result = TRUE
    /\ heap[last.self].refId = heap[last.other].refId
    /\ heap[last.self].refStart = heap[last.other].refStart
    /\ heap[last.self].refEnd = heap[last.other].refEnd
    /\ heap[last.self].readSeq1 = <<"A">>
    /\ heap[last.other].readSeq1 = <<"A", "C">>
    /\ heap[last.self].frequency1 # heap[last.other].frequency1

====
